---- MODULE Spec2Model ----
(***************************************************************************)
(* Model of register_registries.py: one run of the script, provision or    *)
(* deprovision.  Every collaborator call (gcloud subprocess, Artifact      *)
(* Registry / Resource Manager client, FalconContainer, input()) is one    *)
(* action; its result is chosen by the environment from the outcomes the   *)
(* code distinguishes, an exception being one of them.                     *)
(***************************************************************************)
EXTENDS Integers, Sequences, FiniteSets, TLC

\* ---------------------------------------------------------------- bounds
MaxProjects == 2        \* projects returned by search_projects
MaxReposPerQuery == 1   \* repositories returned by one list_repositories
MaxRegistries == 3      \* descriptors collected by one discovery
MaxIds == 3             \* ids returned by read_registry_entities

\* ------------------------------------------------------ program constants
HTTP_OK == 200
Locations == <<"us-central1", "us-east1", "us-west1", "europe-west1", "asia-east1">>
required_roles == <<"roles/artifactregistry.reader", "roles/storage.objectViewer">>
GAR == "gar"

\* ------------------------------------------------- environment's alphabet
ProjectIds == [i \in 1..(MaxProjects + 1) |-> <<"p", i>>]
RepoIds == [i \in 1..(MaxReposPerQuery + 1) |-> <<"r", i>>]
EntryIds == [i \in 1..(MaxIds + 1) |-> <<"e", i>>]
EnvValues == {"unset", "empty", "set"}
FailStatuses == {500}
SkipErrors == {"SERVICE_DISABLED", "PERMISSION_DENIED"}
QueryEndings == {"ok", "OTHER"} \cup SkipErrors
EOF == <<"EOF">>
Responses == { <<"y">>, <<"Y">>, <<"n">>, <<"N">>, <<>>,
               <<"y", "e", "s">>, <<"Y", "E", "S">> }

VARIABLES
  mode,               \* args.deprovision: "provision" or "deprovision"
  env,                \* the three environment variables
  pc,                 \* position of the run: the next call, "done" or "failed"
  last,               \* the latest collaborator call and its outcome
  out,                \* the result the workflow printed last
  \* list_gcp_registries: the projects found, the indices of the project and
  \* location queried next, the descriptors collected
  projects, pi, li, registries,
  \* get_service_account_key: numbers of describe, create and keys-create
  \* calls made, whether service_account_key.json is on disk, the key returned
  saDescribes, saCreates, keyMints, keyFile, service_account_key,
  \* provision_registries / grant_required_roles: index of the descriptor and
  \* of the role granted next, the set of the code, the projects of the
  \* grant_required_roles calls and the <<project, role>> of the gcloud calls
  gi, ri, projects_processed, grantPasses, grantLog,
  \* register_with_falcon: the descriptors of the create calls made, results
  createCalls, results,
  \* cleanup_falcon_registries: the ids listed, index of the id fetched next,
  \* the candidates, the outcome of each id's detail fetch, number of prompts,
  \* the operator's response, index of the candidate deleted next, the id
  \* lists of the delete calls made
  registry_ids, di, gar_registries, detailOf, prompts, confirm, xi, deleteCalls,
  \* cleanup_service_account: numbers of list and delete calls made
  saLists, saDeletes

discVars == <<projects, pi, li, registries>>
credVars == <<saDescribes, saCreates, keyMints, keyFile, service_account_key>>
grantVars == <<gi, ri, projects_processed, grantPasses, grantLog>>
regVars == <<createCalls, results>>
falconVars == <<registry_ids, di, gar_registries, detailOf, prompts, confirm, xi, deleteCalls>>
saVars == <<saLists, saDeletes>>
vars == <<mode, env, pc, last, out, discVars, credVars, grantVars, regVars, falconVars, saVars>>

NoCall == [call |-> "none", arg |-> <<>>, res |-> "none"]
Call(c, a, r) == [call |-> c, arg |-> a, res |-> r]

Init ==
  /\ mode \in {"provision", "deprovision"}
  /\ env \in [{"GCP_HOST_PROJECT", "FALCON_CLIENT_ID", "FALCON_CLIENT_SECRET"} -> EnvValues]
  /\ pc = "main"
  /\ last = NoCall
  /\ out = <<>>
  /\ projects = <<>> /\ pi = 1 /\ li = 1 /\ registries = <<>>
  /\ saDescribes = 0 /\ saCreates = 0 /\ keyMints = 0 /\ keyFile = FALSE
  /\ service_account_key = "none"
  /\ gi = 1 /\ ri = 1 /\ projects_processed = {} /\ grantPasses = <<>> /\ grantLog = <<>>
  /\ createCalls = <<>> /\ results = <<>>
  /\ registry_ids = <<>> /\ di = 1 /\ gar_registries = <<>>
  /\ detailOf = [i \in {} |-> "none"]
  /\ prompts = 0 /\ confirm = <<"none">> /\ xi = 1 /\ deleteCalls = <<>>
  /\ saLists = 0 /\ saDeletes = 0

\* ------------------------------------------------------------------ main
\* os.environ.get gives None for an unset variable and '' for an empty one;
\* all([...]) takes both as false.
Truthy(v) == v = "set"

\* Mutation of the test: any() in place of all().
ConfigOkAny(e) == \E k \in DOMAIN e : Truthy(e[k])

\* all([host_project, falcon_client_id, falcon_client_secret])
ConfigOk(e) == \A k \in DOMAIN e : Truthy(e[k])

main ==
  /\ pc = "main"
  /\ pc' = IF ~ConfigOk(env) THEN "failed"
           ELSE IF mode = "deprovision" THEN "read_registry_entities"
           ELSE "search_projects"
  /\ UNCHANGED <<mode, env, last, out, discVars, credVars, grantVars, regVars, falconVars, saVars>>

\* ------------------------------------------------- list_gcp_registries
\* repo.name and the descriptor built from it; repository_id is
\* repo.name.split('/')[-1].
RepoName(project_id, location, r) ==
  <<"projects", project_id, "locations", location, "repositories", r>>

registry_info(name, project_id, location) ==
  [name |-> name, project_id |-> project_id, location |-> location,
   repository_id |-> name[Len(name)]]

\* The descriptors appended by one query before it ended (n repositories seen).
Found(project_id, location, n) ==
  [k \in 1..n |-> registry_info(RepoName(project_id, location, RepoIds[k]),
                                project_id, location)]

\* Position of the next query after the one at <<p, l>> ended with `ending`,
\* for a mutation of the error policy: an access-denied partition is not left.
NextQueryNoBreakOnDenied(p, l, ending) ==
  IF ending = "SERVICE_DISABLED" \/ l = Len(Locations) THEN <<p + 1, 1>> ELSE <<p, l + 1>>

\* Position of the next query: break on SERVICE_DISABLED / PERMISSION_DENIED,
\* otherwise the next location, and the next project after the last location.
NextQuery(p, l, ending) ==
  IF ending \in SkipErrors \/ l = Len(Locations) THEN <<p + 1, 1>> ELSE <<p, l + 1>>

\* provision_registries right after list_gcp_registries returned: with a
\* mutation that goes on to the credential stage even with nothing discovered.
AfterDiscoveryNoShortCircuit(regs) == "describe_sa"

\* provision_registries right after list_gcp_registries returned.
AfterDiscovery(regs) == IF regs = <<>> THEN "done" ELSE "describe_sa"

DiscoveryReturns(regs) ==
  /\ pc' = AfterDiscovery(regs)
  /\ out' = IF AfterDiscovery(regs) = "done" THEN <<"No registries found">> ELSE out

search_projects ==
  /\ pc = "search_projects"
  /\ \/ /\ last' = Call("search_projects", <<>>, "raise")
        /\ pc' = "failed"
        /\ UNCHANGED <<out, projects>>
     \/ \E n \in 0..MaxProjects :
          /\ last' = Call("search_projects", <<>>, "ok")
          /\ projects' = [k \in 1..n |-> ProjectIds[k]]
          /\ IF n = 0 THEN DiscoveryReturns(registries)
                      ELSE pc' = "list_repositories" /\ out' = out
  /\ UNCHANGED <<mode, env, pi, li, registries, credVars, grantVars, regVars, falconVars, saVars>>

list_repositories ==
  /\ pc = "list_repositories"
  /\ \E n \in 0..MaxReposPerQuery, ending \in QueryEndings :
       LET project_id == projects[pi]
           location == Locations[li]
           regs == registries \o Found(project_id, location, n)
           nq == NextQuery(pi, li, ending)
       IN /\ Len(regs) <= MaxRegistries
          /\ last' = Call("list_repositories", <<pi, li>>, ending)
          /\ registries' = regs
          /\ pi' = nq[1]
          /\ li' = nq[2]
          /\ IF nq[1] > Len(projects) THEN DiscoveryReturns(regs)
                                      ELSE pc' = pc /\ out' = out
  /\ UNCHANGED <<mode, env, projects, credVars, grantVars, regVars, falconVars, saVars>>

\* --------------------------------------------- get_service_account_key
\* The outcomes of a gcloud command run with subprocess.run: the exit
\* statuses the code distinguishes, and "raise" for subprocess.run itself
\* raising (OSError when the process cannot be spawned), which is not a
\* CalledProcessError.

\* Mutation of the describe handler: the key is minted whatever the describe
\* command returned.
AfterDescribeNoCreate(res) == "keys_create"

\* What follows `gcloud iam service-accounts describe`: a zero exit status
\* means the account exists; check=True turns every other exit status into
\* CalledProcessError, whose handler creates the account; any other
\* exception leaves get_service_account_key.
AfterDescribe(res) ==
  IF res = "exists" THEN "keys_create"
  ELSE IF res = "raise" THEN "failed"
  ELSE "create_sa"

describe_sa ==
  /\ pc = "describe_sa"
  /\ \E res \in {"exists", "NOT_FOUND", "PERMISSION_DENIED", "raise"} :
       /\ last' = Call("describe_sa", <<>>, res)
       /\ pc' = AfterDescribe(res)
  /\ saDescribes' = saDescribes + 1
  /\ UNCHANGED <<mode, env, out, discVars, saCreates, keyMints, keyFile,
                 service_account_key, grantVars, regVars, falconVars, saVars>>

\* Mutation of the create call: check=True left out, a failed creation goes
\* on to the key.
AfterCreateSaUnchecked(res) == "keys_create"

\* subprocess.run(create_cmd, check=True) outside any try: a non-zero exit
\* status, like subprocess.run itself raising, raises out of
\* get_service_account_key.
AfterCreateSa(res) == IF res = "ok" THEN "keys_create" ELSE "failed"

\* `gcloud iam service-accounts create` with check=True, outside any try.
create_sa ==
  /\ pc = "create_sa"
  /\ \E res \in {"ok", "fail", "raise"} :
       /\ last' = Call("create_sa", <<>>, res)
       /\ pc' = AfterCreateSa(res)
  /\ saCreates' = saCreates + 1
  /\ UNCHANGED <<mode, env, out, discVars, saDescribes, keyMints, keyFile,
                 service_account_key, grantVars, regVars, falconVars, saVars>>

\* `gcloud iam service-accounts keys create service_account_key.json`: on a
\* zero exit status the key file is on disk; a non-zero exit status and
\* subprocess.run raising both leave get_service_account_key.
keys_create ==
  /\ pc = "keys_create"
  /\ \E res \in {"ok", "fail", "raise"} :
       /\ last' = Call("keys_create", <<>>, res)
       /\ pc' = IF res = "ok" THEN "read_key_file" ELSE "failed"
       /\ keyFile' = IF res = "ok" THEN TRUE ELSE keyFile
  /\ keyMints' = keyMints + 1
  /\ UNCHANGED <<mode, env, out, discVars, saDescribes, saCreates,
                 service_account_key, grantVars, regVars, falconVars, saVars>>

Min(S) == CHOOSE x \in S : \A y \in S : x <= y

\* Mutation of the grant loop's test: one pass per descriptor.
NeedsGrantPerDescriptor(project_id, processed) == TRUE

\* provision_registries: `registry['project_id'] not in projects_processed`.
NeedsGrant(project_id, processed) == project_id \notin processed

\* Index of the first descriptor at or after g whose project is granted next;
\* Len(regs) + 1 when the loop is over.
NextGrant(regs, g, processed) ==
  LET S == {k \in g..Len(regs) : NeedsGrant(regs[k].project_id, processed)}
  IN IF S = {} THEN Len(regs) + 1 ELSE Min(S)

AfterGrants(regs, g) ==
  IF g > Len(regs) THEN "create_registry_entities" ELSE "add_iam_policy_binding"

\* open + json.load + os.remove + return, and the start of the grant loop.
read_key_file ==
  /\ pc = "read_key_file"
  /\ \/ /\ last' = Call("read_key_file", <<>>, "valid")
        /\ service_account_key' = "key_json"
        /\ keyFile' = FALSE
        /\ gi' = NextGrant(registries, 1, projects_processed)
        /\ pc' = AfterGrants(registries, NextGrant(registries, 1, projects_processed))
     \/ /\ last' = Call("read_key_file", <<>>, "invalid")
        /\ pc' = "failed"
        /\ UNCHANGED <<service_account_key, keyFile, gi>>
  /\ UNCHANGED <<mode, env, out, discVars, saDescribes, saCreates, keyMints,
                 ri, projects_processed, grantPasses, grantLog, regVars, falconVars, saVars>>

\* ------------------------------------------------- grant_required_roles
\* The role loop after one grant command that ran: CalledProcessError is
\* caught and printed, so the next role follows whatever the exit status.
NextRole(r, res) == r + 1

\* One `gcloud projects add-iam-policy-binding` for role ri of the pass for
\* registries[gi].project_id.  A non-zero exit status (CalledProcessError) is
\* caught and printed; `except subprocess.CalledProcessError` does not catch
\* subprocess.run itself raising, which leaves grant_required_roles and
\* provision_registries.
add_iam_policy_binding ==
  /\ pc = "add_iam_policy_binding"
  /\ \E res \in {"ok", "fail", "raise"} :
       LET project_id == registries[gi].project_id
           escapes == res = "raise"
           lastRole == ~escapes /\ NextRole(ri, res) > Len(required_roles)
           processed == IF lastRole THEN projects_processed \cup {project_id}
                                    ELSE projects_processed
           g == IF lastRole THEN NextGrant(registries, gi + 1, processed) ELSE gi
       IN /\ last' = Call("add_iam_policy_binding", <<project_id, required_roles[ri]>>, res)
          /\ grantPasses' = IF ri = 1 THEN Append(grantPasses, project_id) ELSE grantPasses
          /\ grantLog' = Append(grantLog, <<project_id, required_roles[ri]>>)
          /\ ri' = IF escapes THEN ri ELSE IF lastRole THEN 1 ELSE NextRole(ri, res)
          /\ projects_processed' = processed
          /\ gi' = g
          /\ pc' = IF escapes THEN "failed"
                   ELSE IF lastRole THEN AfterGrants(registries, g) ELSE pc
  /\ UNCHANGED <<mode, env, out, discVars, credVars, regVars, falconVars, saVars>>

\* ------------------------------------------------- register_with_falcon
\* One falcon.create_registry_entities for registries[Len(createCalls) + 1].
\* The response is recorded with response.get('body', {}); the failure
\* branch then reads response['body'].
create_registry_entities ==
  /\ pc = "create_registry_entities"
  /\ LET i == Len(createCalls) + 1
         registry == registries[i]
         more == IF i < Len(registries) THEN pc ELSE "summary"
     IN /\ createCalls' = Append(createCalls, registry.name)
        /\ \/ /\ last' = Call("create_registry_entities", <<i>>, "raise")
              /\ pc' = "failed"
              /\ UNCHANGED results
           \/ /\ last' = Call("create_registry_entities", <<i>>, "ok")
              /\ results' = Append(results, [registry |-> registry.name,
                                             status |-> HTTP_OK, response |-> <<>>])
              /\ pc' = more
           \/ \E st \in FailStatuses :
                /\ last' = Call("create_registry_entities", <<i>>, "fail")
                /\ results' = Append(results, [registry |-> registry.name,
                                               status |-> st, response |-> <<"errors">>])
                /\ pc' = more
           \/ \E st \in FailStatuses :
                /\ last' = Call("create_registry_entities", <<i>>, "fail_no_body")
                /\ results' = Append(results, [registry |-> registry.name,
                                               status |-> st, response |-> <<>>])
                /\ pc' = "failed"
  /\ UNCHANGED <<mode, env, out, discVars, credVars, grantVars, falconVars, saVars>>

\* ------------------------------------------- provision_registries: summary
\* Mutation of the count: every recorded result counts as a success.
success_countAll(res) == Len(res)

\* len([r for r in results if r['status'] == 200])
success_count(res) == Cardinality({k \in DOMAIN res : res[k].status = HTTP_OK})

RECURSIVE failed_registrations(_, _)
\* The (registry, errors) pairs printed under "Failed registrations".
failed_registrations(s, k) ==
  IF k > Len(s) THEN <<>>
  ELSE IF s[k].status # HTTP_OK
       THEN <<(<<s[k].registry, s[k].response>>)>> \o failed_registrations(s, k + 1)
       ELSE failed_registrations(s, k + 1)

Summary(regs, res) ==
  <<"summary", Len(regs), success_count(res), Len(regs) - success_count(res),
    IF Len(regs) - success_count(res) > 0 THEN failed_registrations(res, 1) ELSE <<>> >>

print_summary ==
  /\ pc = "summary"
  /\ out' = Summary(registries, results)
  /\ pc' = "done"
  /\ UNCHANGED <<mode, env, last, discVars, credVars, grantVars, regVars, falconVars, saVars>>

\* -------------------------------------------- cleanup_falcon_registries
\* Mutation of the listing's status test: a failed listing is taken for an
\* empty one.
ListingMessageNoStatusCheck(res, n) ==
  IF n = 0 THEN <<"No registries found in Falcon">> ELSE <<>>

\* What cleanup_falcon_registries prints before returning early from the
\* listing: a status other than 200 is tested before the id list.
ListingMessage(res, n) ==
  IF res = "fail" THEN <<"Failed to list registries">>
  ELSE IF n = 0 THEN <<"No registries found in Falcon">>
  ELSE <<>>

\* falcon.read_registry_entities(): a status other than 200 and an empty id
\* list both return to main; an exception is not caught here.
read_registry_entities ==
  /\ pc = "read_registry_entities"
  /\ \/ /\ last' = Call("read_registry_entities", <<>>, "raise")
        /\ pc' = "failed"
        /\ UNCHANGED <<out, registry_ids>>
     \/ \E res \in {"ok", "fail"}, n \in 0..MaxIds :
          /\ res = "fail" => n = 0
          /\ last' = Call("read_registry_entities", <<>>, res)
          /\ registry_ids' = [k \in 1..n |-> EntryIds[k]]
          /\ out' = IF ListingMessage(res, n) # <<>> THEN ListingMessage(res, n) ELSE out
          /\ pc' = IF res = "fail" \/ n = 0 THEN "sa_list"
                   ELSE "read_registry_entities_by_uuid"
  /\ UNCHANGED <<mode, env, discVars, credVars, grantVars, regVars,
                 di, gar_registries, detailOf, prompts, confirm, xi, deleteCalls, saVars>>

\* The outcomes of one detail fetch: the call raising, a status other than
\* 200, a 200 whose resources list is empty ([0] raises IndexError, caught),
\* a 200 without a resources key (the default [{}] has no type), and a 200
\* whose record has type "gar" or another type.
DetailOutcomes == {"raise", "fail", "no_record", "untyped", GAR, "other"}

\* Mutation of the type filter: every fetched record is taken.
IsGarAnyType(res) == res \in {GAR, "other", "untyped"}

\* details['status_code'] == 200 and registry.get('type') == 'gar'
IsGar(res) == res = GAR

\* Mutation of the fetch loop: an exception of the detail fetch is not caught.
AfterDetailRaiseEscapes(res, over, none) ==
  IF res = "raise" THEN "failed"
  ELSE IF ~over THEN "read_registry_entities_by_uuid"
  ELSE IF none THEN "sa_list" ELSE "confirm"

\* The fetch loop after one fetch: every outcome goes on to the next id
\* (except Exception: print, continue); after the last id the function
\* returns if there is no candidate and prompts otherwise.
AfterDetail(res, over, none) ==
  IF ~over THEN "read_registry_entities_by_uuid"
  ELSE IF none THEN "sa_list" ELSE "confirm"

read_registry_entities_by_uuid ==
  /\ pc = "read_registry_entities_by_uuid"
  /\ \E res \in DetailOutcomes :
       LET registry_id == registry_ids[di]
           gars == IF IsGar(res) THEN Append(gar_registries, [id |-> registry_id])
                                 ELSE gar_registries
           over == di = Len(registry_ids)
       IN /\ last' = Call("read_registry_entities_by_uuid", registry_id, res)
          /\ detailOf' = [i \in DOMAIN detailOf \cup {registry_id} |->
                            IF i = registry_id THEN res ELSE detailOf[i]]
          /\ gar_registries' = gars
          /\ di' = di + 1
          /\ out' = IF over /\ gars = <<>>
                    THEN <<"No Google Artifact Registry registrations found in Falcon">>
                    ELSE out
          /\ pc' = AfterDetail(res, over, gars = <<>>)
  /\ UNCHANGED <<mode, env, discVars, credVars, grantVars, regVars,
                 registry_ids, prompts, confirm, xi, deleteCalls, saVars>>

\* str.lower() of one character of a typed line.  The characters are those
\* up to U+00FF, the ones a string of this module can hold; on them
\* str.lower() works character by character: each of the 26 ASCII and 30
\* Latin-1 upper-case letters gives its lower-case letter, and every other
\* character is left as it is.
UpperCase == <<"A", "B", "C", "D", "E", "F", "G", "H", "I", "J", "K", "L", "M",
               "N", "O", "P", "Q", "R", "S", "T", "U", "V", "W", "X", "Y", "Z",
               "À", "Á", "Â", "Ã", "Ä", "Å", "Æ", "Ç", "È", "É", "Ê", "Ë", "Ì",
               "Í", "Î", "Ï", "Ð", "Ñ", "Ò", "Ó", "Ô", "Õ", "Ö", "Ø", "Ù", "Ú",
               "Û", "Ü", "Ý", "Þ">>
LowerCase == <<"a", "b", "c", "d", "e", "f", "g", "h", "i", "j", "k", "l", "m",
               "n", "o", "p", "q", "r", "s", "t", "u", "v", "w", "x", "y", "z",
               "à", "á", "â", "ã", "ä", "å", "æ", "ç", "è", "é", "ê", "ë", "ì",
               "í", "î", "ï", "ð", "ñ", "ò", "ó", "ô", "õ", "ö", "ø", "ù", "ú",
               "û", "ü", "ý", "þ">>

LowerChar(c) ==
  IF \E i \in DOMAIN UpperCase : UpperCase[i] = c
  THEN LowerCase[CHOOSE i \in DOMAIN UpperCase : UpperCase[i] = c]
  ELSE c

Lower(r) == [k \in DOMAIN r |-> LowerChar(r[k])]

\* Mutation of the gate: everything but a "n" proceeds.
ProceedsUnlessNo(r) == Lower(r) # <<"n">>

\* The gate is `confirm.lower() != 'y'` -> return.
Proceeds(r) == Lower(r) = <<"y">>

\* input(): the operator's line, or EOFError on a closed stdin (not caught).
confirm_input ==
  /\ pc = "confirm"
  /\ prompts' = prompts + 1
  /\ \/ /\ last' = Call("input", <<>>, "raise")
        /\ confirm' = EOF
        /\ pc' = "failed"
        /\ out' = out
     \/ \E r \in Responses :
          /\ last' = Call("input", <<>>, "ok")
          /\ confirm' = r
          /\ pc' = IF Proceeds(r) THEN "delete_registry_entities" ELSE "sa_list"
          /\ out' = IF Proceeds(r) THEN out ELSE <<"Aborted registry removal">>
  /\ UNCHANGED <<mode, env, discVars, credVars, grantVars, regVars,
                 registry_ids, di, gar_registries, detailOf, xi, deleteCalls, saVars>>

\* Mutation of the delete loop: an exception of the delete call is not caught.
AfterDeleteRaiseEscapes(res, more) ==
  IF res = "raise" THEN "failed"
  ELSE IF more THEN "delete_registry_entities" ELSE "sa_list"

\* The delete loop after one call: the status test and the except clause
\* both only print, so the loop goes on while candidates are left.
AfterDelete(res, more) == IF more THEN "delete_registry_entities" ELSE "sa_list"

\* falcon.delete_registry_entities(ids=[reg['id']]) for gar_registries[xi];
\* a status other than 200 and an exception are both printed and passed over.
delete_registry_entities ==
  /\ pc = "delete_registry_entities"
  /\ \E res \in {"ok", "fail", "raise"} :
       LET nxt == AfterDelete(res, xi < Len(gar_registries))
       IN /\ last' = Call("delete_registry_entities", gar_registries[xi].id, res)
          /\ pc' = nxt
          /\ out' = IF nxt = "sa_list" THEN <<"Cleanup complete">> ELSE out
  /\ deleteCalls' = Append(deleteCalls, <<gar_registries[xi].id>>)
  /\ xi' = xi + 1
  /\ UNCHANGED <<mode, env, discVars, credVars, grantVars, regVars,
                 registry_ids, di, gar_registries, detailOf, prompts, confirm, saVars>>

\* ---------------------------------------------- cleanup_service_account
\* Mutation of the membership test: the delete is issued whenever the
\* listing succeeded.
AfterSaListNoMembershipTest(res) ==
  IF res \in {"present", "absent"} THEN "sa_delete" ELSE "done"

\* A non-zero exit status of the listing returns; `sa_email not in
\* service_accounts` returns; otherwise the delete follows.
AfterSaList(res) == IF res = "present" THEN "sa_delete" ELSE "done"

\* `gcloud iam service-accounts list`: the whole function is inside
\* try/except Exception, so every outcome returns to main.
sa_list ==
  /\ pc = "sa_list"
  /\ \E res \in {"raise", "fail", "absent", "present"} :
       /\ last' = Call("sa_list", <<>>, res)
       /\ pc' = AfterSaList(res)
  /\ saLists' = saLists + 1
  /\ UNCHANGED <<mode, env, out, discVars, credVars, grantVars, regVars, falconVars, saDeletes>>

\* `gcloud iam service-accounts delete --quiet`
sa_delete ==
  /\ pc = "sa_delete"
  /\ \E res \in {"ok", "fail", "raise"} :
       last' = Call("sa_delete", <<>>, res)
  /\ saDeletes' = saDeletes + 1
  /\ pc' = "done"
  /\ UNCHANGED <<mode, env, out, discVars, credVars, grantVars, regVars, falconVars, saLists>>

Next ==
  \/ main
  \/ search_projects \/ list_repositories
  \/ describe_sa \/ create_sa \/ keys_create \/ read_key_file
  \/ add_iam_policy_binding
  \/ create_registry_entities
  \/ print_summary
  \/ read_registry_entities \/ read_registry_entities_by_uuid
  \/ confirm_input \/ delete_registry_entities
  \/ sa_list \/ sa_delete

Spec == Init /\ [][Next]_vars

\* ================================================================ claims
Range(f) == {f[k] : k \in DOMAIN f}
Count(seq, x) == Cardinality({k \in DOMAIN seq : seq[k] = x})
IsPrefix(a, b) == Len(a) <= Len(b) /\ SubSeq(b, 1, Len(a)) = a
Terminated == pc \in {"done", "failed"}
DiscoveredProjects == {registries[k].project_id : k \in DOMAIN registries}
Affirmative == { <<"y">>, <<"Y">> }

\* C1: every id passed to a delete call, and every id listed as a deletion
\* candidate, is the id of an entry whose detail fetch returned type "gar".
C1_OnlyGarDeleted ==
  /\ \A k \in DOMAIN deleteCalls : \A id \in Range(deleteCalls[k]) :
       id \in DOMAIN detailOf /\ detailOf[id] = GAR
  /\ \A k \in DOMAIN gar_registries :
       gar_registries[k].id \in DOMAIN detailOf /\ detailOf[gar_registries[k].id] = GAR

\* A delete call was made in a run that also fetched an entry of another type.
C1_Witness ==
  /\ deleteCalls # <<>>
  /\ \E id \in DOMAIN detailOf : detailOf[id] = "other"

\* C2: once the operator has answered the confirmation prompt with anything
\* but an explicit affirmative, no delete call has been or is issued, the run
\* does not fail, and it ends only after the service-account cleanup was
\* attempted.
C2_DeclineDeletesNothing ==
  (confirm # <<"none">> /\ confirm # EOF /\ confirm \notin Affirmative) =>
     /\ deleteCalls = <<>>
     /\ pc \in {"sa_list", "sa_delete", "done"}
     /\ pc \in {"sa_delete", "done"} => saLists = 1

\* The operator answered "yes" (not the affirmative), and the run ended after
\* the cleanup of the service account was attempted.
C2_Witness ==
  /\ confirm = <<"y", "e", "s">>
  /\ gar_registries # <<>>
  /\ pc = "done"
  /\ saLists = 1

\* C3: a provision run whose discovery returned no descriptor makes no
\* identity check, no identity creation, no key mint, no role grant and no
\* create-entry call, and ends in the "nothing to do" state.
C3_EmptyDiscoveryShortCircuits ==
  (mode = "provision" /\ registries = <<>>) =>
     /\ saDescribes = 0 /\ saCreates = 0 /\ keyMints = 0
     /\ grantLog = <<>> /\ grantPasses = <<>> /\ createCalls = <<>>
     /\ pc \notin {"main", "search_projects", "list_repositories", "failed"} =>
          pc = "done" /\ out = <<"No registries found">>

\* Discovery queried the regions of some project, found nothing, and the run
\* ended.
C3_Witness ==
  /\ mode = "provision"
  /\ projects # <<>>
  /\ last.call = "list_repositories"
  /\ registries = <<>>
  /\ pc = "done"

\* C4 (as claimed): outside the step between writing and reading the key
\* file, that is whenever get_service_account_key has returned or raised,
\* the key file is not on disk.
C4_KeyFileNeverOutlives == pc # "read_key_file" => keyFile = FALSE

\* C5 (as claimed): an existence check that failed for a reason other than
\* "not found" ends the run as failed, before any create-identity call and
\* any key mint.
C5_OtherCheckFailureIsFatal ==
  (last.call = "describe_sa" /\ last.res = "PERMISSION_DENIED") =>
     pc = "failed" /\ saCreates = 0 /\ keyMints = 0

\* C6 (as claimed): every deprovision run that passed configuration
\* validation and has ended has attempted the service-account cleanup, and
\* without gar-typed entries the operator was never prompted.
C6_CleanupUnconditional ==
  (mode = "deprovision" /\ ConfigOk(env)) =>
     /\ Terminated => saLists >= 1
     /\ gar_registries = <<>> => prompts = 0

\* C7 (as claimed): once register_with_falcon has started, every create call
\* made so far has its result recorded, and the run leaves the stage only
\* with one create call and one result per discovered descriptor.
C7_OneCreatePerDescriptor ==
  createCalls # <<>> =>
     /\ Len(results) = Len(createCalls)
     /\ pc # "create_registry_entities" =>
          /\ Len(createCalls) = Len(registries)
          /\ \A k \in DOMAIN registries : createCalls[k] = registries[k].name

\* C8 (as claimed): a provision run whose credential stage succeeded ends
\* only after a create-entry call was made for every discovered descriptor.
C8_AllRegisteredDespiteGrantFailures ==
  (mode = "provision" /\ service_account_key # "none" /\ Terminated) =>
     \A k \in DOMAIN registries : registries[k].name \in Range(createCalls)

\* C9: no project gets more than one grant pass, only projects of discovered
\* descriptors get one, and once the grant stage is over every project of a
\* discovered descriptor has had exactly one.
C9_OnePassPerProject ==
  /\ \A p \in Range(ProjectIds) :
       /\ Count(grantPasses, p) <= 1
       /\ Count(grantPasses, p) = 1 => p \in DiscoveredProjects
  /\ (createCalls # <<>> \/ pc \in {"create_registry_entities", "summary"}) =>
       \A p \in DiscoveredProjects : Count(grantPasses, p) = 1

\* The grant stage is over for three descriptors of two projects: one project
\* has descriptors in two regions (discovery lists the descriptors project by
\* project).
C9_Witness ==
  /\ pc = "create_registry_entities"
  /\ Len(registries) = 3
  /\ Cardinality(DiscoveredProjects) = 2
  /\ Len(grantPasses) = 2

\* C10: a repository query never fails the run and never drops a descriptor
\* already collected; after SERVICE_DISABLED or PERMISSION_DENIED the next
\* query, if any project is left, is the first region of the next project;
\* after any other error it is the next region of the same project (the next
\* project after the last region); and the projects are never revisited.
C10_DiscoveryErrorPolicy ==
  [][ (pc = "list_repositories") =>
        /\ pc' # "failed"
        /\ IsPrefix(registries, registries')
        /\ pi' >= pi
        /\ last'.res \in SkipErrors =>
             /\ pi' = pi + 1 /\ li' = 1
             /\ pi < Len(projects) => pc' = "list_repositories"
        /\ last'.res = "OTHER" =>
             /\ li < Len(Locations) =>
                  pi' = pi /\ li' = li + 1 /\ pc' = "list_repositories"
             /\ li = Len(Locations) =>
                  /\ pi' = pi + 1 /\ li' = 1
                  /\ pi < Len(projects) => pc' = "list_repositories"
    ]_vars

\* A partition was skipped before its last region, with a descriptor already
\* collected, and discovery went on with the next partition.
C10_Witness ==
  /\ pc = "list_repositories"
  /\ last.call = "list_repositories"
  /\ last.res \in SkipErrors
  /\ last.arg[1] = 1 /\ last.arg[2] < Len(Locations)
  /\ pi = 2 /\ li = 1
  /\ registries # <<>>

\* A run stopped by a fatal error: missing configuration, a failed discovery
\* or credential stage, a listing call that failed or raised, or a
\* confirmation that was declined or could not be read.
FatalStop ==
  \/ ~ConfigOk(env)
  \/ pc = "failed" /\ last.call \in {"search_projects", "describe_sa", "create_sa",
                                     "keys_create", "read_key_file",
                                     "read_registry_entities", "input"}
  \/ out \in { <<"Failed to list registries">>, <<"Aborted registry removal">> }

\* The last result printed is a summary with counts, "nothing to do" or
\* "nothing to remove".
ExplicitSummary ==
  /\ out # <<>>
  /\ out[1] \in {"summary", "No registries found", "No registries found in Falcon",
                 "No Google Artifact Registry registrations found in Falcon"}

\* C11 (as claimed): every run that has ended without a fatal stop has
\* printed a summary with counts, "nothing to do" or "nothing to remove",
\* whatever per-item failures occurred.
C11_EveryRunEndsWithSummary == (Terminated /\ ~FatalStop) => ExplicitSummary

\* C12: the printed provision summary gives total = number of discovered
\* descriptors, succeeded = number of results with status 200, failed =
\* total - succeeded = number of results with another status, and lists
\* exactly the results with another status, each with its registry name and
\* its error list.
C12_SummaryCounts ==
  (out # <<>> /\ out[1] = "summary") =>
     LET good == {k \in DOMAIN results : results[k].status = HTTP_OK}
         bad == {k \in DOMAIN results : results[k].status # HTTP_OK}
     IN /\ Len(results) = Len(registries)
        /\ \A k \in DOMAIN results : results[k].registry = registries[k].name
        /\ out[2] = Len(registries)
        /\ out[3] = Cardinality(good)
        /\ out[4] = out[2] - out[3]
        /\ out[4] = Cardinality(bad)
        /\ Len(out[5]) = Cardinality(bad)
        /\ \A k \in bad : \E j \in DOMAIN out[5] :
             out[5][j] = <<results[k].registry, results[k].response>>
        /\ \A j \in DOMAIN out[5] : \E k \in bad :
             out[5][j] = <<results[k].registry, results[k].response>>

\* A summary was printed for a run with a successful and a failed
\* registration.
C12_Witness ==
  /\ out # <<>> /\ out[1] = "summary"
  /\ out[3] >= 1 /\ out[4] >= 1
  /\ Len(out[5]) = out[4]

\* The listing call did not succeed: it raised or returned a status other
\* than 200.
ListingFailed ==
  \/ last.call = "read_registry_entities" /\ last.res \in {"fail", "raise"}
  \/ out = <<"Failed to list registries">>

NoEntryStage == DOMAIN detailOf = {} /\ prompts = 0 /\ deleteCalls = <<>>

\* C13 (as claimed): a listing call that did not succeed aborts the
\* deprovision workflow: the run is failed, and no detail fetch, prompt,
\* delete call or later stage follows.
C13_ListingFailureAborts ==
  ListingFailed => (pc = "failed" /\ NoEntryStage /\ saLists = 0)

\* C13 (amended): a listing call that raises aborts the run; one that returns
\* a status other than 200 is reported as "Failed to list registries",
\* distinct from the report of an empty listing, and the run goes on to the
\* service-account cleanup; in both cases no detail fetch, no prompt and no
\* delete call follows; an empty listing is reported as such and is no error.
C13_ListingFailureSkipsEntries ==
  /\ ListingFailed => NoEntryStage /\ registry_ids = <<>>
  /\ (last.call = "read_registry_entities" /\ last.res = "raise") => pc = "failed"
  /\ (last.call = "read_registry_entities" /\ last.res = "fail") =>
        pc = "sa_list" /\ out = <<"Failed to list registries">>
  /\ out = <<"Failed to list registries">> => pc \in {"sa_list", "sa_delete", "done"}
  /\ (last.call = "read_registry_entities" /\ last.res = "ok" /\ registry_ids = <<>>) =>
        pc = "sa_list" /\ out = <<"No registries found in Falcon">>

\* A listing returned a status other than 200 and the run ended after the
\* service-account cleanup.
C13_Witness ==
  /\ out = <<"Failed to list registries">>
  /\ pc = "done"
  /\ saLists = 1

\* C14: cleanup_service_account issues the delete call exactly when the
\* listing succeeded and contains the target email; with the email absent it
\* ends without a delete call; at most one listing and one delete are made;
\* and whatever the listing or the delete returns or raises, the run is not
\* failed by it and completes.
C14_IdempotentIdentityDelete ==
  /\ saLists <= 1 /\ saDeletes <= 1
  /\ pc = "sa_delete" <=> (last.call = "sa_list" /\ last.res = "present")
  /\ saDeletes = 1 => (last.call = "sa_delete" /\ pc = "done")
  /\ (last.call = "sa_list" /\ last.res = "absent") => (pc = "done" /\ saDeletes = 0)
  /\ last.call \in {"sa_list", "sa_delete"} =>
       (pc \in {"sa_delete", "done"} /\ saDeletes + saLists >= 1)

\* The email was listed, the delete was issued and failed, and the run
\* completed.
C14_Witness ==
  /\ last.call = "sa_delete" /\ last.res = "fail"
  /\ saDeletes = 1
  /\ pc = "done"

NoCollaboratorCall ==
  /\ last = NoCall
  /\ projects = <<>> /\ registries = <<>>
  /\ saDescribes = 0 /\ saCreates = 0 /\ keyMints = 0 /\ ~keyFile
  /\ grantPasses = <<>> /\ grantLog = <<>>
  /\ createCalls = <<>>
  /\ registry_ids = <<>> /\ DOMAIN detailOf = {} /\ prompts = 0 /\ deleteCalls = <<>>
  /\ saLists = 0 /\ saDeletes = 0

\* C15: with any of the three environment variables unset (or empty), the
\* run, in either mode, fails at startup: it is at its start or failed, and
\* no discovery, identity, key, role-grant, list, create or delete call has
\* been made.
C15_MissingConfigFailsFirst ==
  (\E k \in DOMAIN env : env[k] # "set") =>
     (pc \in {"main", "failed"} /\ NoCollaboratorCall /\ out = <<>>)

\* A deprovision run with only the client secret unset has failed.
C15_Witness ==
  /\ mode = "deprovision"
  /\ env["FALCON_CLIENT_SECRET"] = "unset"
  /\ env["GCP_HOST_PROJECT"] = "set" /\ env["FALCON_CLIENT_ID"] = "set"
  /\ pc = "failed"

GarIds == {gar_registries[k].id : k \in DOMAIN gar_registries}

\* C16: after an affirmative confirmation the delete calls made so far are,
\* in order, one call per candidate, each with the id list holding only that
\* candidate's id; no delete outcome fails the run; once the delete stage is
\* left every candidate has had its call; and the candidates are the
\* gar-typed entries found, each once.
C16_OneDeletePerGarEntry ==
  confirm \in Affirmative =>
     /\ pc # "failed"
     /\ xi - 1 <= Len(gar_registries)
     /\ deleteCalls = [k \in 1..(xi - 1) |-> <<gar_registries[k].id>>]
     /\ pc # "delete_registry_entities" => Len(deleteCalls) = Len(gar_registries)
     /\ Cardinality(GarIds) = Len(gar_registries)
     /\ GarIds = {id \in DOMAIN detailOf : detailOf[id] = GAR}

\* The delete call for the first of several candidates failed or raised and
\* the loop is at the second, in a run that also fetched a non-gar entry.
C16_Witness ==
  /\ confirm \in Affirmative
  /\ pc = "delete_registry_entities"
  /\ xi = 2
  /\ last.call = "delete_registry_entities" /\ last.res \in {"fail", "raise"}
  /\ \E id \in DOMAIN detailOf : detailOf[id] = "other"

\* C17: no outcome of a detail fetch fails the run; the ids fetched so far
\* are exactly the listed ids before the loop's position, so that once the
\* fetch stage is left every listed id has been fetched; and the candidates
\* are exactly the ids whose fetch returned type "gar".
C17_FetchFailureSkipsOneId ==
  /\ last.call = "read_registry_entities_by_uuid" => pc # "failed"
  /\ di - 1 <= Len(registry_ids)
  /\ DOMAIN detailOf = {registry_ids[k] : k \in 1..(di - 1)}
  /\ (registry_ids # <<>> /\ pc # "read_registry_entities_by_uuid") =>
       DOMAIN detailOf = Range(registry_ids)
  /\ {gar_registries[k].id : k \in DOMAIN gar_registries} =
       {id \in DOMAIN detailOf : detailOf[id] = GAR}

\* The fetch of the first id raised, the fetch of the second failed with a
\* status, the third returned a gar entry, and the run is at the prompt.
C17_Witness ==
  /\ pc = "confirm"
  /\ Len(registry_ids) = 3
  /\ detailOf[registry_ids[1]] = "raise"
  /\ detailOf[registry_ids[2]] \in {"fail", "no_record"}
  /\ detailOf[registry_ids[3]] = GAR

IdentityConfirmed ==
  \/ last.call = "describe_sa" /\ last.res = "exists"
  \/ last.call = "create_sa" /\ last.res = "ok"

GrantsComplete ==
  /\ Len(grantLog) = Len(required_roles) * Cardinality(DiscoveredProjects)
  /\ \A p \in DiscoveredProjects : \A r \in Range(required_roles) :
       Count(grantLog, <<p, r>>) = 1

PastCredentialStage ==
  \/ pc \in {"add_iam_policy_binding", "create_registry_entities", "summary"}
  \/ grantLog # <<>> \/ createCalls # <<>>

\* The stage order of a provision run, as facts about the calls made so far:
\* the identity is checked only after a non-empty discovery has returned; the
\* key-mint call is made at most once and only right after the identity was
\* found or created; a role grant is made only with the key minted and read;
\* a create-entry call is made only with every role grant of every
\* discovered project made; the summary is printed only with every
\* create-entry call made.
StageOrder ==
  mode = "provision" =>
     /\ saDescribes <= 1 /\ saCreates <= 1 /\ keyMints <= 1
     /\ saDescribes >= 1 => (registries # <<>> /\ pi > Len(projects))
     /\ saCreates >= 1 => saDescribes = 1
     /\ pc = "keys_create" => (IdentityConfirmed /\ keyMints = 0)
     /\ keyMints >= 1 => saDescribes = 1
     /\ (grantLog # <<>> \/ pc = "add_iam_policy_binding") =>
          (keyMints = 1 /\ service_account_key # "none" /\ ~keyFile)
     /\ Len(grantLog) <= Len(required_roles) * Cardinality(DiscoveredProjects)
     /\ (createCalls # <<>> \/ pc = "create_registry_entities") =>
          (keyMints = 1 /\ GrantsComplete)
     /\ (out # <<>> /\ out[1] = "summary") =>
          (pc = "done" /\ Len(createCalls) = Len(registries) /\ GrantsComplete)

\* The number of keys minted: the key-mint calls that did not fail.
KeysMinted ==
  IF last.call = "keys_create" /\ last.res \in {"fail", "raise"}
  THEN keyMints - 1 ELSE keyMints

\* C18 (as claimed): the stage order holds, and every provision run with a
\* non-empty discovery that has ended has minted exactly one key.
C18_StageOrderOneKeyEveryRun ==
  /\ StageOrder
  /\ (mode = "provision" /\ registries # <<>> /\ Terminated) => KeysMinted = 1

\* C18 (amended): the stage order holds, and exactly one key-mint call has
\* been made in every provision run that got past the credential stage.
C18_StageOrderOneKeyPastCredential ==
  /\ StageOrder
  /\ (mode = "provision" /\ PastCredentialStage) => keyMints = 1
  /\ (mode = "provision" /\ pc = "done" /\ registries # <<>>) =>
       (keyMints = 1 /\ out # <<>> /\ out[1] = "summary")

\* A run that created the identity, minted the key, granted both roles in
\* two projects, made the create calls and printed the summary.
C18_Witness ==
  /\ pc = "done"
  /\ out # <<>> /\ out[1] = "summary"
  /\ saCreates = 1 /\ keyMints = 1
  /\ Len(grantLog) = 4
  /\ Len(createCalls) >= 2

\* The credential stage failed: the identity creation, the key-mint call or
\* the reading of the key file did.
CredentialFailed ==
  \/ last.call \in {"create_sa", "keys_create"} /\ last.res \in {"fail", "raise"}
  \/ last.call = "read_key_file" /\ last.res = "invalid"

\* C19: when identity creation or key minting fails, the run is failed at
\* once: no role-grant call and no create-entry call has been or is made,
\* no key is returned and no summary is printed.
C19_CredentialFailureStopsRun ==
  CredentialFailed =>
     /\ pc = "failed"
     /\ grantPasses = <<>> /\ grantLog = <<>>
     /\ createCalls = <<>> /\ results = <<>>
     /\ service_account_key = "none"
     /\ out = <<>>

\* The existence check found no identity and the creation failed, with
\* descriptors discovered.
C19_Witness ==
  /\ last.call = "create_sa" /\ last.res = "fail"
  /\ saDescribes = 1 /\ saCreates = 1
  /\ registries # <<>>
  /\ pc = "failed"

\* A grant that failed: the gcloud command exited with a non-zero status, or
\* could not be run at all.
GrantFailed == last.call = "add_iam_policy_binding" /\ last.res \in {"fail", "raise"}

\* C20 (as claimed): no role is granted twice to a project; every project
\* whose pass is over has had each role of required_roles attempted once; a
\* failed grant never raises, so it never fails the run; and after a failed
\* grant of the first role the grant of the second role of the same project
\* is the next call.
C20_RolesGrantedIndependently ==
  /\ \A p \in Range(ProjectIds) : \A r \in Range(required_roles) :
       Count(grantLog, <<p, r>>) <= 1
  /\ \A p \in projects_processed : \A r \in Range(required_roles) :
       Count(grantLog, <<p, r>>) = 1
  /\ GrantFailed => pc # "failed"
  /\ (GrantFailed /\ last.arg[2] = required_roles[1]) =>
       /\ pc = "add_iam_policy_binding"
       /\ ri = 2
       /\ registries[gi].project_id = last.arg[1]
====
